---- MODULE Spec2Model ----
(***************************************************************************)
(* A model of the ALS half-epoch scheduler of lenskit                       *)
(* (lenskit/algorithms/als/explicit.py) and of the process-wide parallel    *)
(* configuration (lenskit/parallel/config.py).                              *)
(*                                                                          *)
(* Numbers: the factor matrices hold exact rationals <<numerator,           *)
(* denominator>>; the observed values and the regularization are integers.  *)
(* Floating-point rounding is not modelled.  The value a half-epoch         *)
(* returns is a square root; it is kept as its radicand [sqrt |-> q].       *)
(***************************************************************************)
EXTENDS Integers, Sequences, FiniteSets, TLC

VARIABLES
    \* ---- TrainContext (ctx) and WorkChunks
    nrows,        \* ctx.nrows
    ncols,        \* number of columns of ctx.matrix (rows of ctx.right)
    nf,           \* number of features: ctx.left.shape[1]
    chunk_size,   \* chunking.chunk_size
    left,         \* ctx.left : 0..nrows-1 -> vector of rationals
    right,        \* ctx.right: 0..ncols-1 -> vector of rationals
    matrix,       \* ctx.matrix: 0..nrows-1 -> sparse row
    regI,         \* ctx.regI : nf x nf integer matrix
    \* ---- _train_update_fanout's frame
    pc,           \* "call", "fork", "join", "done" (returned), "failed" (raised)
    cursor,       \* the loop variable start of the fork loop
    results,      \* the list results: <<[start, end, fut]>>
    fut,          \* the forked tasks (futures), by position in results
    joined,       \* how many entries of results the wait loop has passed
    sqerr,        \* the accumulator sqerr (a rational)
    ret,          \* None, or Some(the value returned)
    \* ---- history, for stating the properties
    left0,        \* ctx.left when the half-epoch was called
    solves,       \* row -> how often _train_solve_row was invoked for it
    writes,       \* row -> how often the row of ctx.left was assigned
    raised,       \* the rows whose solve raised
    \* ---- lenskit.parallel.config
    _config,      \* the module global _config: None or Some(ParallelConfig)
    environ,      \* os.environ: variable name -> None (unset) or Some(string)
    ncpus,        \* mp.cpu_count()
    call,         \* the last call of the configuration interface and how it ended,
                  \* with the call before it (prior)
    \* ---- the model object (BiasedMF) and its training
    self_features,   \* self.features
    epochs,          \* self.epochs
    self_reg,        \* self.reg: [scalar |-> r] or [ureg |-> u, ireg |-> i]
    user_index_,     \* the user vocabulary of the trained model
    item_index_,     \* self.item_index_: the item vocabulary of the trained model
    user_features_,  \* self.user_features_
    item_features_,  \* self.item_features_
    data,            \* the TrainingData: users, items, matrix, matrix_T
    epoch,           \* the epoch being run
    phase,           \* "Initialized", "UserHalfEpoch", "ItemHalfEpoch", "Trained", "Failed"
    trainlog,        \* history: the half-epochs that have ended
    embed,           \* the last call of new_user_embedding and how it ended
    scored,          \* the last scoring call and its scores
    \* ---- a Vocabulary
    keys,            \* the keys the vocabulary is built from
    vocab,           \* the Vocabulary: None before construction
    lookup           \* the last lookup and how it ended

alsVars == <<nrows, ncols, nf, chunk_size, left, right, matrix, regI, pc, cursor,
             results, fut, joined, sqerr, ret, left0, solves, writes, raised>>

cfgVars == <<_config, environ, ncpus, call>>

mdlVars == <<self_features, epochs, self_reg, user_index_, item_index_, user_features_,
             item_features_, data, epoch, phase, trainlog, embed, scored>>

vocVars == <<keys, vocab, lookup>>

vars == <<alsVars, cfgVars, mdlVars, vocVars>>

\* what no step of a half-epoch assigns
ctxVars == <<nrows, ncols, nf, chunk_size, right, matrix, regI, left0, cfgVars, mdlVars,
             vocVars>>

---------------------------------------------------------------------------
\* Bounds of the model.
MaxSmall == 1
MaxOver == 2
MaxN == 8
MaxC == 4

\* `if ctx.nrows <= 50` (explicit.py:185)
SeqThreshold == 50

\* the longest sequence of keys a vocabulary is built from
MaxKeys == 3

\* Optional values: None, or Some(x) holding x
None == <<>>

Some(x) == <<x>>

---------------------------------------------------------------------------
\* Exact rational arithmetic.
Abs(x) == IF x < 0 THEN -x ELSE x

Min(a, b) == IF a < b THEN a ELSE b

RECURSIVE GCD(_, _)
GCD(a, b) == IF b = 0 THEN a ELSE GCD(b, a % b)

Rat(n, d) ==
    LET g == GCD(Abs(n), Abs(d))
        s == IF d < 0 THEN -1 ELSE 1
    IN  <<(s * n) \div g, (s * d) \div g>>

RInt(n) == <<n, 1>>

RAdd(p, q) == Rat(p[1] * q[2] + q[1] * p[2], p[2] * q[2])

RSub(p, q) == Rat(p[1] * q[2] - q[1] * p[2], p[2] * q[2])

RMul(p, q) == Rat(p[1] * q[1], p[2] * q[2])

RDiv(p, q) == Rat(p[1] * q[2], p[2] * q[1])

\* sums of f[lo..hi], split in halves
RECURSIVE SumRatRange(_, _, _)
SumRatRange(f, lo, hi) ==
    IF lo > hi THEN RInt(0)
    ELSE IF lo = hi THEN f[lo]
    ELSE LET mid == (lo + hi) \div 2
         IN  RAdd(SumRatRange(f, lo, mid), SumRatRange(f, mid + 1, hi))

SumRat(f, n) == SumRatRange(f, 1, n)

---------------------------------------------------------------------------
\* Dense linear algebra on nf x nf matrices of rationals (sequences of rows).

\* the determinant, by expansion along the first row
RECURSIVE Det(_, _)
Det(A, n) ==
    IF n = 0 THEN RInt(1)
    ELSE IF n = 1 THEN A[1][1]
    ELSE LET Minor(j) == [r \in 1..(n - 1) |->
                            [c \in 1..(n - 1) |-> A[r + 1][IF c < j THEN c ELSE c + 1]]]
             Term(j) == RMul(RInt(IF j % 2 = 1 THEN 1 ELSE -1),
                             RMul(A[1][j], Det(Minor(j), n - 1)))
         IN  SumRat([j \in 1..n |-> Term(j)], n)

Leading(A, m) == [r \in 1..m |-> [c \in 1..m |-> A[r][c]]]

\* torch.linalg.cholesky_ex: info is 0 when A is positive definite and otherwise
\* the order of the first leading minor that is not.
RECURSIVE CholeskyInfoFrom(_, _, _)
CholeskyInfoFrom(A, n, m) ==
    IF m > n THEN 0
    ELSE IF Det(Leading(A, m), m)[1] <= 0 THEN m
    ELSE CholeskyInfoFrom(A, n, m + 1)

cholesky_ex_info(A, n) == CholeskyInfoFrom(A, n, 1)

\* torch.cholesky_solve(V, L) with L the factor of A: the solution x of A x = V
\* (Cramer's rule).
cholesky_solve(V, A, n) ==
    LET d == Det(A, n)
        Repl(j) == [r \in 1..n |-> [c \in 1..n |-> IF c = j THEN V[r] ELSE A[r][c]]]
    IN  [j \in 1..n |-> RDiv(Det(Repl(j), n), d)]

---------------------------------------------------------------------------
\* _train_solve_row (explicit.py:139-160).  `features` is this.shape[1].
\* The result is [ok |-> TRUE, V |-> the vector] or [ok |-> FALSE] for the
\* RuntimeError.
SystemA(cols, other, regI_, features) ==
    LET M == [k \in 1..Len(cols) |-> other[cols[k]]]                     \* other[cols, :]
        MMT == [a \in 1..features |-> [b \in 1..features |->
                  SumRat([k \in 1..Len(cols) |-> RMul(M[k][a], M[k][b])], Len(cols))]]
    IN  [a \in 1..features |-> [b \in 1..features |->
            RAdd(MMT[a][b], RInt(regI_[a][b] * Len(cols)))]]

SystemV(cols, vals, other, features) ==
    LET M == [k \in 1..Len(cols) |-> other[cols[k]]]
    IN  [a \in 1..features |->
            SumRat([k \in 1..Len(cols) |-> RMul(M[k][a], RInt(vals[k]))], Len(cols))]

\* a variant of _train_solve_row that returns a zero vector instead of raising
_train_solve_row_default(cols, vals, features, other, regI_) ==
    IF cholesky_ex_info(SystemA(cols, other, regI_, features), features) # 0
    THEN [ok |-> TRUE, V |-> [f \in 1..features |-> RInt(0)]]
    ELSE [ok |-> TRUE,
          V |-> cholesky_solve(SystemV(cols, vals, other, features),
                               SystemA(cols, other, regI_, features), features)]

_train_solve_row(cols, vals, features, other, regI_) ==
    LET A == SystemA(cols, other, regI_, features)
        V == SystemV(cols, vals, other, features)
    IN  IF cholesky_ex_info(A, features) # 0
        THEN [ok |-> FALSE]
        ELSE [ok |-> TRUE, V |-> cholesky_solve(V, A, features)]

\* `(n,) = row.shape` (explicit.py:169): row = ctx.matrix[i] is a one-dimensional
\* sparse tensor, and the shape of a sparse tensor is its dense shape, so n is
\* the number of columns of ctx.matrix whatever the row stores.
RowShape(row, columns) == columns

\* The loop of _train_update_rows (explicit.py:167-178) over rows start..end-1,
\* on the cloned block `result`.  A row is skipped when n = 0; the loop stops at
\* the first row whose solve raises.  `solved` is the set of rows the solver
\* was invoked for.
RowLoop(result, start, end, mat, columns, features, other, regI_) ==
    LET visited == {i \in start..(end - 1) : RowShape(mat[i], columns) # 0}
        \* the solve reads only the row's indices and values (and other, regI):
        \* it is evaluated once for each distinct row
        solved == {<<row, _train_solve_row(row.indices, row.values, features, other, regI_)>> :
                      row \in {mat[i] : i \in visited}}
        Solve(i) == (CHOOSE p \in solved : p[1] = mat[i])[2]
        raising == {i \in visited : ~Solve(i).ok}
        stop == IF raising = {} THEN end
                ELSE CHOOSE i \in raising : \A j \in raising : i <= j
    IN  [ok |-> raising = {},
         result |-> [j \in 1..(end - start) |->
                       IF (start + j - 1) \in visited /\ start + j - 1 < stop
                       THEN Solve(start + j - 1).V
                       ELSE result[j]],
         solved |-> {i \in visited : i <= stop},
         raised |-> IF raising = {} THEN {} ELSE {stop}]

\* `result = ctx.left[start:end, :].clone()` (explicit.py:165)
CloneRows(l, start, end) == [j \in 1..(end - start) |-> l[start + j - 1]]

\* _train_update_rows (explicit.py:163-180) as one call
_train_update_rows(l, mat, columns, features, other, regI_, start, end) ==
    RowLoop(CloneRows(l, start, end), start, end, mat, columns, features, other, regI_)

\* a variant of SqDiff that takes the difference after the rows were assigned
SqDiffAfterAssign(l, M, start, end, features) ==
    SumRat([j \in 1..(end - start) |->
              SumRat([f \in 1..features |->
                        LET d == RSub(M[j][f], M[j][f]) IN RMul(d, d)],
                     features)],
           end - start)

\* dot(diff, diff) with diff = (ctx.left[start:end, :] - M).ravel() (explicit.py:200-201)
SqDiff(l, M, start, end, features) ==
    SumRat([j \in 1..(end - start) |->
              SumRat([f \in 1..features |->
                        LET d == RSub(l[start + j - 1][f], M[j][f]) IN RMul(d, d)],
                     features)],
           end - start)

\* a variant of AssignRows that appends the block to left
AssignRowsAppended(l, M, start, end) ==
    LET n == Cardinality(DOMAIN l)
    IN  [i \in 0..(n + (end - start) - 1) |-> IF i < n THEN l[i] ELSE M[i - n + 1]]

\* a variant of AssignRows that assigns the block to the first rows of left
AssignRowsFromZero(l, M, start, end) ==
    [i \in DOMAIN l |-> IF i < end - start THEN M[i + 1] ELSE l[i]]

\* `ctx.left[start:end, :] = M` (explicit.py:189, 202)
AssignRows(l, M, start, end) ==
    [i \in DOMAIN l |-> IF i >= start /\ i < end THEN M[i - start + 1] ELSE l[i]]

CountRows(w, start, end) ==
    [i \in DOMAIN w |-> IF i >= start /\ i < end THEN w[i] + 1 ELSE w[i]]

CountSolved(s, rows) == [i \in DOMAIN s |-> IF i \in rows THEN s[i] + 1 ELSE s[i]]

\* a variant of RunsSequentially with the threshold excluded
RunsSequentiallyBelow(n) == n < SeqThreshold

\* `if ctx.nrows <= 50` (explicit.py:185)
RunsSequentially(n) == n <= SeqThreshold

\* a variant of ChunkEnd whose chunk takes the first row of the next chunk too
ChunkEndOverlapping(start, size, n) == Min(start + size + 1, n)

\* a variant of ChunkEnd that does not clip the last chunk
ChunkEndUnclipped(start, size, n) == start + size

\* `end = min(start + chunking.chunk_size, ctx.nrows)` (explicit.py:194)
ChunkEnd(start, size, n) == Min(start + size, n)

\* the step of `range(0, ctx.nrows, chunking.chunk_size)` (explicit.py:193)
NextStart(start, size) == start + size

---------------------------------------------------------------------------
\* lenskit/parallel/config.py.  Strings are sequences of characters.

Digits == {"0", "1", "2", "3", "4", "5", "6", "7", "8", "9"}

DigitValue(c) ==
    CASE c = "0" -> 0 [] c = "1" -> 1 [] c = "2" -> 2 [] c = "3" -> 3 [] c = "4" -> 4
      [] c = "5" -> 5 [] c = "6" -> 6 [] c = "7" -> 7 [] c = "8" -> 8 [] c = "9" -> 9

RECURSIVE DecimalValue(_)
DecimalValue(s) ==
    IF s = <<>> THEN 0
    ELSE 10 * DecimalValue(SubSeq(s, 1, Len(s) - 1)) + DigitValue(s[Len(s)])

RECURSIVE Strip(_)
Strip(s) ==
    IF s # <<>> /\ s[1] = " " THEN Strip(Tail(s))
    ELSE IF s # <<>> /\ s[Len(s)] = " " THEN Strip(SubSeq(s, 1, Len(s) - 1))
    ELSE s

\* Python's int(str): surrounding blanks, an optional sign, decimal digits;
\* anything else raises ValueError.  (Underscores between digits are not modelled.)
IntOfDigits(sign, body) ==
    IF body = <<>> \/ \E k \in 1..Len(body) : body[k] \notin Digits
    THEN [ok |-> FALSE, raised |-> "ValueError"]
    ELSE [ok |-> TRUE, value |-> sign * DecimalValue(body)]

IntOfStripped(t) ==
    IF t # <<>> /\ t[1] \in {"+", "-"}
    THEN IntOfDigits(IF t[1] = "-" THEN -1 ELSE 1, Tail(t))
    ELSE IntOfDigits(1, t)

int(s) == IntOfStripped(Strip(s))

\* Python's a // b for b # 0
FloorDiv(a, b) == IF b > 0 THEN a \div b ELSE (-a) \div (-b)

\* the truth value of os.environ.get(name, None): None and "" are false
Truthy(v) == v # None /\ v[1] # <<>>

\* `if processes is None and nprocs: processes = int(nprocs)` (config.py:107-114):
\* the argument after the environment override, or the ValueError of int()
Converted(r) == IF r.ok THEN [ok |-> TRUE, value |-> Some(r.value)] ELSE r

\* a variant of EnvOverride in which the environment wins over the argument
EnvOverrideFirst(arg, envval) ==
    IF Truthy(envval)
    THEN Converted(int(envval[1]))
    ELSE [ok |-> TRUE, value |-> arg]

EnvOverride(arg, envval) ==
    IF arg = None /\ Truthy(envval)
    THEN Converted(int(envval[1]))
    ELSE [ok |-> TRUE, value |-> arg]

\* the defaults (config.py:116-123)
DefaultProcesses(cpus) == Min(cpus, 4)

DefaultThreads(cpus) == Min(cpus, 8)

\* a variant of DefaultChildThreads that gives every worker at least one thread
DefaultChildThreadsClamped(cpus, processes) ==
    IF FloorDiv(cpus, processes) < 1 THEN 1 ELSE Min(FloorDiv(cpus, processes), 4)

DefaultChildThreads(cpus, processes) == Min(FloorDiv(cpus, processes), 4)

\* config.py:122-125, with processes and threads resolved
ResolveChildThreads(p2, t2, c1, cpus) ==
    IF c1 # None
    THEN [ok |-> TRUE,
          value |-> [processes |-> p2, threads |-> t2, child_threads |-> c1[1]]]
    ELSE IF p2 = 0
    THEN [ok |-> FALSE, raised |-> "ZeroDivisionError"]
    ELSE [ok |-> TRUE,
          value |-> [processes |-> p2, threads |-> t2,
                     child_threads |-> DefaultChildThreads(cpus, p2)]]

\* config.py:107-125, with the three environment overrides evaluated
ResolveDefaults(p1, t1, c1, cpus) ==
    IF ~p1.ok THEN p1
    ELSE IF ~t1.ok THEN t1
    ELSE IF ~c1.ok THEN c1
    ELSE ResolveChildThreads(IF p1.value = None THEN DefaultProcesses(cpus) ELSE p1.value[1],
                             IF t1.value = None THEN DefaultThreads(cpus) ELSE t1.value[1],
                             c1.value, cpus)

\* _resolve_parallel_config (config.py:97-125): the ParallelConfig, or what it raises
_resolve_parallel_config(processes, threads, child_threads, env, cpus) ==
    ResolveDefaults(EnvOverride(processes, env["LK_NUM_PROCS"]),
                    EnvOverride(threads, env["LK_NUM_THREADS"]),
                    EnvOverride(child_threads, env["LK_NUM_CHILD_THREADS"]),
                    cpus)

\* `if _config:` (config.py:62, 84): a ParallelConfig is a dataclass with neither
\* __bool__ nor __len__, so it is true whenever it is not None
IsSet(cfg) == cfg # None

\* a variant of Configure that marks the configuration as set, with an empty
\* ParallelConfig, before it is resolved
ConfigureMarked(cfg, r) ==
    IF ~r.ok
    THEN [config |-> Some([processes |-> 0, threads |-> 0, child_threads |-> 0]),
          raised |-> r.raised, warned |-> FALSE]
    ELSE IF r.value.threads < 1
    THEN [config |-> Some(r.value), raised |-> "RuntimeError", warned |-> FALSE]
    ELSE [config |-> Some(r.value), raised |-> "", warned |-> FALSE]

\* config.py:69-73: _config is assigned what was resolved, then
\* torch.set_num_threads raises RuntimeError for a thread count below 1
Configure(cfg, r) ==
    IF ~r.ok THEN [config |-> cfg, raised |-> r.raised, warned |-> FALSE]
    ELSE IF r.value.threads < 1
    THEN [config |-> Some(r.value), raised |-> "RuntimeError", warned |-> FALSE]
    ELSE [config |-> Some(r.value), raised |-> "", warned |-> FALSE]

\* a variant of initialize that warns and goes on (no return after the warning)
initialize_without_return(cfg, processes, threads, child_threads, env, cpus) ==
    [Configure(cfg, _resolve_parallel_config(processes, threads, child_threads, env, cpus))
        EXCEPT !.warned = IsSet(cfg)]

\* initialize (config.py:30-73): the new _config and how the call ends
initialize(cfg, processes, threads, child_threads, env, cpus) ==
    IF IsSet(cfg)
    THEN [config |-> cfg, raised |-> "", warned |-> TRUE]
    ELSE Configure(cfg, _resolve_parallel_config(processes, threads, child_threads, env, cpus))

\* ensure_parallel_init (config.py:76-85)
ensure_parallel_init(cfg, env, cpus) ==
    IF ~IsSet(cfg) THEN initialize(cfg, None, None, None, env, cpus)
    ELSE [config |-> cfg, raised |-> "", warned |-> FALSE]

\* get_parallel_config (config.py:88-94), from what ensure_parallel_init did
get_parallel_config(r) ==
    [config |-> r.config,
     raised |-> IF r.raised # "" THEN r.raised
                ELSE IF r.config = None THEN "AssertionError" ELSE "",
     warned |-> r.warned,
     value |-> IF r.raised = "" THEN r.config ELSE None]

EnvNames == {"LK_NUM_PROCS", "LK_NUM_THREADS", "LK_NUM_CHILD_THREADS"}

\* the values of an environment variable: unset, empty, "0", "12", " 2", "x"
EnvValues == {None, Some(<<>>), Some(<<"0">>), Some(<<"1", "2">>), Some(<<" ", "2">>),
              Some(<<"x">>)}

\* the explicit arguments: None, 0, 3
ArgValues == {None, Some(0), Some(3)}

CpuCounts == {2, 16}

NoPrior == [op |-> "", raised |-> ""]

NoCall == [op |-> "", args |-> <<>>, raised |-> "", warned |-> FALSE, value |-> None,
           prior |-> NoPrior]

\* the configuration interface is not used during a half-epoch
ConfigIdle ==
    /\ _config = None
    /\ environ = [n \in EnvNames |-> None]
    /\ ncpus = 2
    /\ call = NoCall

---------------------------------------------------------------------------
\* The cold-start projection: BiasedMF.new_user_embedding (explicit.py:107-125)
\* and _train_bias_row_cholesky (explicit.py:207-232).  The model object has no
\* bias model (self.bias is None), so the ratings are used as they are given and
\* the offset returned is None.  A rating history is a pandas Series:
\* [index |-> the item ids, values |-> the ratings].

\* pandas Index.get_indexer_for on an index of distinct labels: the position of
\* each target, -1 for a target that is not in the index
PositionIn(index, k) ==
    IF \E j \in 1..Len(index) : index[j] = k
    THEN (CHOOSE j \in 1..Len(index) : index[j] = k) - 1
    ELSE -1

get_indexer_for(index, targets) == [k \in 1..Len(targets) |-> PositionIn(index, targets[k])]

\* a[mask] for a boolean mask
RECURSIVE Masked(_, _)
Masked(a, mask) ==
    IF a = <<>> THEN <<>>
    ELSE IF Head(mask) THEN <<Head(a)>> \o Masked(Tail(a), Tail(mask))
    ELSE Masked(Tail(a), Tail(mask))

\* explicit.py:118-122: the user regularization of self.reg
UserReg(r) == IF "ureg" \in DOMAIN r THEN r.ureg ELSE r.scalar

\* explicit.py:219-223: A = M.T @ M + (eye(nf) * reg) * len(items), with
\* M = other[items, :] and nf = other.shape[1]
BiasRowA(items, other, features, ureg) ==
    LET M == [k \in 1..Len(items) |-> other[items[k]]]
        eye == [a \in 1..features |-> [b \in 1..features |-> IF a = b THEN 1 ELSE 0]]
    IN  [a \in 1..features |-> [b \in 1..features |->
            RAdd(SumRat([k \in 1..Len(items) |-> RMul(M[k][a], M[k][b])], Len(items)),
                 RInt((eye[a][b] * ureg) * Len(items)))]]

\* explicit.py:225: V = M.T @ ratings
BiasRowV(items, ratings, other, features) ==
    [a \in 1..features |->
        SumRat([k \in 1..Len(items) |-> RMul(other[items[k]][a], RInt(ratings[k]))],
               Len(items))]

\* a variant of _train_bias_row_cholesky whose regularization is not scaled by
\* the number of rated items
_train_bias_row_cholesky_unweighted(items, ratings, other, features, ureg) ==
    LET A == [a \in 1..features |-> [b \in 1..features |->
                RAdd(BiasRowA(items, other, features, 0)[a][b],
                     RInt(IF a = b THEN ureg ELSE 0))]]
    IN  IF cholesky_ex_info(A, features) # 0
        THEN [ok |-> FALSE]
        ELSE [ok |-> TRUE,
              V |-> cholesky_solve(BiasRowV(items, ratings, other, features), A, features)]

\* _train_bias_row_cholesky (explicit.py:207-232); `features` is other.shape[1]
_train_bias_row_cholesky(items, ratings, other, features, ureg) ==
    IF cholesky_ex_info(BiasRowA(items, other, features, ureg), features) # 0
    THEN [ok |-> FALSE]
    ELSE [ok |-> TRUE,
          V |-> cholesky_solve(BiasRowV(items, ratings, other, features),
                               BiasRowA(items, other, features, ureg), features)]

\* explicit.py:113-116: the positions and the ratings of the items the index knows
KnownItems(index, ratings) ==
    LET ri_idxes == get_indexer_for(index, ratings.index)
        ri_good == [k \in 1..Len(ri_idxes) |-> ri_idxes[k] >= 0]
    IN  [ri_it |-> Masked(ri_idxes, ri_good), ri_val |-> Masked(ratings.values, ri_good)]

\* explicit.py:124-125: the call ends with the vector or with the RuntimeError
Embedded(index, ifeat, ufeat, r, known, solved) ==
    [item_index_ |-> index, item_features_ |-> ifeat, user_features_ |-> ufeat, reg |-> r,
     ri_it |-> known.ri_it, ri_val |-> known.ri_val,
     raised |-> IF solved.ok THEN "" ELSE "RuntimeError",
     value |-> IF solved.ok THEN Some([u_feat |-> solved.V, u_offset |-> None]) ELSE None]

EmbedKnown(index, ifeat, ufeat, r, features, known) ==
    Embedded(index, ifeat, ufeat, r, known,
             _train_bias_row_cholesky(known.ri_it, known.ri_val, ifeat, features, UserReg(r)))

\* a variant of new_user_embedding that keeps the new vector as a row of
\* user_features_
new_user_embedding_stored(index, ifeat, ufeat, r, features, user, ratings) ==
    LET e == EmbedKnown(index, ifeat, ufeat, r, features, KnownItems(index, ratings))
        n == Cardinality(DOMAIN ufeat[1])
    IN  IF e.raised = ""
        THEN [e EXCEPT !.user_features_ =
                  Some([i \in 0..n |-> IF i < n THEN ufeat[1][i] ELSE e.value[1].u_feat])]
        ELSE e

\* new_user_embedding (explicit.py:107-125): the attributes of the model after
\* the call, what the call used and how it ended
new_user_embedding(index, ifeat, ufeat, r, features, user, ratings) ==
    EmbedKnown(index, ifeat, ufeat, r, features, KnownItems(index, ratings))

\* Scoring: score(query, items) gives one score per requested item, in the
\* requested order; the score of a user or an item the model does not know is
\* the missing-value sentinel.  The query is a user id without rating history.
NaN == <<>>

Dot(u, v, features) == SumRat([f \in 1..features |-> RMul(u[f], v[f])], features)

ScoreItem(uvec, index, ifeat, features, item) ==
    IF uvec = None \/ PositionIn(index, item) < 0 THEN NaN
    ELSE Dot(uvec[1], ifeat[PositionIn(index, item)], features)

\* a variant of score that leaves out the items it has no score for
score_known_only(uindex, ufeat, index, ifeat, features, query, items) ==
    LET uvec == IF PositionIn(uindex, query) < 0 THEN None
                ELSE Some(ufeat[PositionIn(uindex, query)])
    IN  SelectSeq([k \in 1..Len(items) |->
                      [item |-> items[k],
                       score |-> ScoreItem(uvec, index, ifeat, features, items[k])]],
                  LAMBDA e : e.score # NaN)

score(uindex, ufeat, index, ifeat, features, query, items) ==
    LET uvec == IF PositionIn(uindex, query) < 0 THEN None
                ELSE Some(ufeat[PositionIn(uindex, query)])
    IN  [k \in 1..Len(items) |->
            [item |-> items[k], score |-> ScoreItem(uvec, index, ifeat, features, items[k])]]

\* no model object is in use
NoEmbed == [called |-> FALSE, ratings |-> [index |-> <<>>, values |-> <<>>],
            ri_it |-> <<>>, ri_val |-> <<>>, raised |-> "", value |-> None]

NoScores == [called |-> FALSE, query |-> 0, items |-> <<>>, raised |-> "", scores |-> <<>>]

ModelIdle ==
    /\ self_features = 0
    /\ epochs = 0
    /\ self_reg = [scalar |-> 0]
    /\ user_index_ = <<>>
    /\ item_index_ = <<>>
    /\ user_features_ = None
    /\ item_features_ = None
    /\ data = None
    /\ epoch = 0
    /\ phase = "none"
    /\ trainlog = <<>>
    /\ embed = NoEmbed
    /\ scored = NoScores

\* The Vocabulary: the distinct keys in sorted order, with number(key) the
\* position of a key and term(position) the key at a position.

\* the set of the keys of a sequence
KeySet(ks) == {ks[i] : i \in DOMAIN ks}

\* a variant of BuildIndex that keeps the distinct keys in their order of arrival
BuildIndexArrival(ks) ==
    LET firsts == {i \in DOMAIN ks : \A j \in DOMAIN ks : j < i => ks[j] # ks[i]}
    IN  [i \in 1..Cardinality(firsts) |->
            ks[CHOOSE p \in firsts : Cardinality({q \in firsts : q < p}) = i - 1]]

\* the index of a vocabulary: the distinct keys in ascending order
BuildIndex(ks) ==
    LET S == KeySet(ks)
    IN  [i \in 1..Cardinality(S) |->
            CHOOSE x \in S : Cardinality({y \in S : y < x}) = i - 1]

Vocabulary(ks) == [index |-> BuildIndex(ks)]

vocab_size(v) == Len(v.index)

\* number(key, missing): missing is "error" (KeyError) or "negative" (-1)
number(v, k, missing) ==
    IF PositionIn(v.index, k) >= 0
    THEN [raised |-> "", value |-> Some(PositionIn(v.index, k))]
    ELSE IF missing = "error" THEN [raised |-> "KeyError", value |-> None]
    ELSE [raised |-> "", value |-> Some(-1)]

term(v, i) ==
    IF i < 0 \/ i >= vocab_size(v) THEN [raised |-> "IndexError", value |-> None]
    ELSE [raised |-> "", value |-> Some(v.index[i + 1])]

KeyUniverse == {1, 2, 3, 5}

KeySeqs == UNION {[1..n -> KeyUniverse] : n \in 0..MaxKeys}

NoLookup == [op |-> "", arg |-> None, raised |-> "", value |-> None]

\* no vocabulary is in use
VocabIdle ==
    /\ keys = <<>>
    /\ vocab = None
    /\ lookup = NoLookup

---------------------------------------------------------------------------
\* The inputs of a half-epoch.

\* a sparse row: the column indices and the values it stores
RowEmpty == [indices |-> <<>>, values |-> <<>>]

RowOne == [indices |-> <<0>>, values |-> <<1>>]

RowTwo == [indices |-> <<0, 1>>, values |-> <<1, 2>>]

RowTypes(columns) == IF columns = 0 THEN {RowEmpty} ELSE {RowEmpty, RowOne, RowTwo}

NRowsSet == (0..MaxSmall) \cup ((SeqThreshold - 1)..(SeqThreshold + MaxOver))

ChunkSizes == {20, 30, 60}

ColumnCounts == {0, 2}

FeatureCounts == {1, 2}

RegValues == {0, 1}

\* the rows that may differ from the others: the first, the first of the second
\* chunk, the last
SpecialRows(n, size) == {0, size, n - 1} \cap (0..(n - 1))

MatrixOf(n, base, s, t) == [i \in 0..(n - 1) |-> IF i = s THEN t ELSE base]

Matrices(n, size, columns) ==
    IF n = 0 THEN {MatrixOf(0, RowEmpty, 0, RowEmpty)}
    ELSE {MatrixOf(n, base, s, t) : base \in RowTypes(columns),
                                    s \in SpecialRows(n, size),
                                    t \in RowTypes(columns)}

\* right: row c is the unit vector c+1 (zero when c+1 > nf)
Rights(columns, features) ==
    {[c \in 0..(columns - 1) |-> [f \in 1..features |-> RInt(IF c + 1 = f THEN 1 ELSE 0)]]}

\* ctx.regI = eye(nf) * reg
RegIOf(features, reg) ==
    [a \in 1..features |-> [b \in 1..features |-> IF a = b THEN reg ELSE 0]]

LeftInit(n, features) ==
    [i \in 0..(n - 1) |-> [f \in 1..features |-> RInt((i + 2 * f) % 3)]]

ZeroRows(n) == [i \in 0..(n - 1) |-> 0]

\* the frame of _train_update_fanout at its call
FrameInit ==
    /\ left0 = left
    /\ cursor = 0
    /\ results = <<>>
    /\ fut = <<>>
    /\ joined = 0
    /\ sqerr = RInt(0)
    /\ ret = None
    /\ solves = ZeroRows(nrows)
    /\ writes = ZeroRows(nrows)
    /\ raised = {}

---------------------------------------------------------------------------
\* The half-epoch: _train_update_fanout(ctx, chunking, pbh).

Init ==
    /\ nrows \in NRowsSet
    /\ chunk_size \in ChunkSizes
    /\ ncols \in ColumnCounts
    /\ nf \in FeatureCounts
    /\ right \in Rights(ncols, nf)
    /\ matrix \in Matrices(nrows, chunk_size, ncols)
    /\ \E reg \in RegValues : regI = RegIOf(nf, reg)
    /\ left = LeftInit(nrows, nf)
    /\ pc = "call"
    /\ FrameInit
    /\ ConfigIdle
    /\ ModelIdle
    /\ VocabIdle

\* explicit.py:185-190: the sequential path, in the caller
Sequential ==
    /\ pc = "call"
    /\ RunsSequentially(nrows)
    /\ LET r == _train_update_rows(left, matrix, ncols, nf, right, regI, 0, nrows)
       IN  /\ solves' = CountSolved(solves, r.solved)
           /\ raised' = raised \cup r.raised
           /\ IF r.ok
              THEN /\ ret' = Some([sqrt |-> SqDiff(left, r.result, 0, nrows, nf)])
                   /\ left' = AssignRows(left, r.result, 0, nrows)
                   /\ writes' = CountRows(writes, 0, nrows)
                   /\ pc' = "done"
              ELSE /\ pc' = "failed"
                   /\ UNCHANGED <<left, ret, writes>>
    /\ UNCHANGED <<ctxVars, cursor, results, fut, joined, sqerr>>

\* explicit.py:185, 192: more rows than the threshold; results = []
Fanout ==
    /\ pc = "call"
    /\ ~RunsSequentially(nrows)
    /\ results' = <<>>
    /\ pc' = "fork"
    /\ UNCHANGED <<ctxVars, left, cursor, fut, joined, sqerr, ret, solves, writes, raised>>

\* explicit.py:193-195: one iteration of the fork loop
Fork ==
    /\ pc = "fork"
    /\ cursor < nrows
    /\ results' = Append(results,
                         [start |-> cursor, end |-> ChunkEnd(cursor, chunk_size, nrows)])
    /\ fut' = Append(fut, [status |-> "forked", block |-> <<>>])
    /\ cursor' = NextStart(cursor, chunk_size)
    /\ UNCHANGED <<ctxVars, left, pc, joined, sqerr, ret, solves, writes, raised>>

\* explicit.py:193, 197: the fork loop ends; sqerr = torch.tensor(0.0)
ForkEnd ==
    /\ pc = "fork"
    /\ cursor >= nrows
    /\ sqerr' = RInt(0)
    /\ pc' = "join"
    /\ UNCHANGED <<ctxVars, left, cursor, results, fut, joined, ret, solves, writes, raised>>

\* a forked _train_update_rows starts: explicit.py:165
TaskStart(t) ==
    /\ fut[t].status = "forked"
    /\ fut' = [fut EXCEPT ![t] = [status |-> "running",
                                  block |-> CloneRows(left, results[t].start, results[t].end)]]
    /\ UNCHANGED <<ctxVars, left, pc, cursor, results, joined, sqerr, ret, solves, writes,
                   raised>>

\* a forked _train_update_rows runs its loop and returns or raises: explicit.py:167-180
TaskFinish(t) ==
    /\ fut[t].status = "running"
    /\ LET r == RowLoop(fut[t].block, results[t].start, results[t].end, matrix, ncols, nf,
                        right, regI)
       IN  /\ fut' = [fut EXCEPT ![t] = [status |-> IF r.ok THEN "done" ELSE "failed",
                                         block |-> r.result]]
           /\ solves' = CountSolved(solves, r.solved)
           /\ raised' = raised \cup r.raised
    /\ UNCHANGED <<ctxVars, left, pc, cursor, results, joined, sqerr, ret, writes>>

Completed(t) == fut[t].status \in {"done", "failed"}

\* explicit.py:198-202: r.wait() returns the block; it is compared and assigned
WaitCommit ==
    /\ pc = "join"
    /\ joined < Len(results)
    /\ fut[joined + 1].status = "done"
    /\ LET c == results[joined + 1]
           M == fut[joined + 1].block
       IN  /\ sqerr' = RAdd(sqerr, SqDiff(left, M, c.start, c.end, nf))
           /\ left' = AssignRows(left, M, c.start, c.end)
           /\ writes' = CountRows(writes, c.start, c.end)
    /\ joined' = joined + 1
    /\ UNCHANGED <<ctxVars, pc, cursor, results, fut, ret, solves, raised>>

\* explicit.py:199: r.wait() raises the task's RuntimeError
WaitRaise ==
    /\ pc = "join"
    /\ joined < Len(results)
    /\ fut[joined + 1].status = "failed"
    /\ pc' = "failed"
    /\ UNCHANGED <<ctxVars, left, cursor, results, fut, joined, sqerr, ret, solves, writes,
                   raised>>

\* explicit.py:204: return sqerr.sqrt().item()
Return ==
    /\ pc = "join"
    /\ joined = Len(results)
    /\ ret' = Some([sqrt |-> sqerr])
    /\ pc' = "done"
    /\ UNCHANGED <<ctxVars, left, cursor, results, fut, joined, sqerr, solves, writes, raised>>

Next ==
    \/ Sequential
    \/ Fanout
    \/ Fork
    \/ ForkEnd
    \/ \E t \in 1..Len(fut) : TaskStart(t)
    \/ \E t \in 1..Len(fut) : TaskFinish(t)
    \/ WaitCommit
    \/ WaitRaise
    \/ Return

Spec == Init /\ [][Next]_vars

---------------------------------------------------------------------------
\* The fork loop alone, for every row count and chunk size: the ranges it produces.

PartitionInit ==
    /\ nrows \in 0..MaxN
    /\ chunk_size \in 1..MaxC
    /\ ncols = 0
    /\ nf = 1
    /\ right = <<>>
    /\ matrix = MatrixOf(nrows, RowEmpty, 0, RowEmpty)
    /\ regI = RegIOf(nf, 1)
    /\ left = LeftInit(nrows, nf)
    /\ pc = "fork"
    /\ FrameInit
    /\ ConfigIdle
    /\ ModelIdle
    /\ VocabIdle

PartitionNext ==
    \/ Fork
    \/ ForkEnd

SpecPartition == PartitionInit /\ [][PartitionNext]_vars

---------------------------------------------------------------------------
\* The process-wide configuration.

\* no half-epoch runs
TrainingIdle ==
    /\ nrows = 0
    /\ chunk_size = 1
    /\ ncols = 0
    /\ nf = 1
    /\ right = <<>>
    /\ matrix = <<>>
    /\ regI = RegIOf(nf, 1)
    /\ left = <<>>
    /\ pc = "idle"
    /\ FrameInit

\* the environments of the configuration runs: at most one variable is set
Environments ==
    {e \in [EnvNames -> EnvValues] : Cardinality({n \in EnvNames : e[n] # None}) <= 1}

ConfigInit ==
    /\ _config = None
    /\ environ \in Environments
    /\ ncpus \in CpuCounts
    /\ call = NoCall
    /\ TrainingIdle
    /\ ModelIdle
    /\ VocabIdle

\* the call `op` with `args` ended as r says
Called(op, args, r, value) ==
    /\ _config' = r.config
    /\ call' = [op |-> op, args |-> args, raised |-> r.raised, warned |-> r.warned,
                value |-> value, prior |-> [op |-> call.op, raised |-> call.raised]]
    /\ UNCHANGED <<alsVars, environ, ncpus, mdlVars, vocVars>>

\* a call of initialize(processes=p, threads=t, child_threads=c)
Initialize(p, t, c) ==
    Called("initialize", <<p, t, c>>, initialize(_config, p, t, c, environ, ncpus), None)

\* a call of ensure_parallel_init()
EnsureParallelInit ==
    Called("ensure_parallel_init", <<>>, ensure_parallel_init(_config, environ, ncpus), None)

\* a call of get_parallel_config()
Got(r) == Called("get_parallel_config", <<>>, r, r.value)

GetParallelConfig == Got(get_parallel_config(ensure_parallel_init(_config, environ, ncpus)))

ConfigNext ==
    \/ \E p \in ArgValues, t \in ArgValues, c \in ArgValues : Initialize(p, t, c)
    \/ EnsureParallelInit
    \/ GetParallelConfig

SpecConfig == ConfigInit /\ [][ConfigNext]_vars

\* _resolve_parallel_config alone, for every argument and environment
ResolveInit ==
    /\ _config = None
    /\ environ \in [EnvNames -> EnvValues]
    /\ ncpus \in CpuCounts
    /\ call = NoCall
    /\ TrainingIdle
    /\ ModelIdle
    /\ VocabIdle

Resolved(args, r) ==
    /\ call' = [op |-> "_resolve_parallel_config", args |-> args,
                raised |-> IF r.ok THEN "" ELSE r.raised, warned |-> FALSE,
                value |-> IF r.ok THEN Some(r.value) ELSE None, prior |-> NoPrior]
    /\ UNCHANGED <<alsVars, _config, environ, ncpus, mdlVars, vocVars>>

Resolve(p, t, c) ==
    /\ call = NoCall
    /\ Resolved(<<p, t, c>>, _resolve_parallel_config(p, t, c, environ, ncpus))

ResolveNext == \E p \in ArgValues, t \in ArgValues, c \in ArgValues : Resolve(p, t, c)

SpecResolve == ResolveInit /\ [][ResolveNext]_vars

---------------------------------------------------------------------------
\* A Vocabulary: its construction from a collection of keys and its lookups.

VocabInit ==
    /\ keys \in KeySeqs
    /\ vocab = None
    /\ lookup = NoLookup
    /\ TrainingIdle
    /\ ConfigIdle
    /\ ModelIdle

\* Vocabulary(keys)
Construct ==
    /\ vocab = None
    /\ vocab' = Some(Vocabulary(keys))
    /\ UNCHANGED <<alsVars, cfgVars, mdlVars, keys, lookup>>

Looked(op, arg, r) ==
    /\ lookup' = [op |-> op, arg |-> arg, raised |-> r.raised, value |-> r.value]
    /\ UNCHANGED <<alsVars, cfgVars, mdlVars, keys, vocab>>

\* vocab.number(k, missing=missing)
Number(k, missing) ==
    /\ vocab # None
    /\ Looked("number", <<k, missing>>, number(vocab[1], k, missing))

\* vocab.term(i)
Term(i) ==
    /\ vocab # None
    /\ Looked("term", <<i>>, term(vocab[1], i))

VocabNext ==
    \/ Construct
    \/ \E k \in KeyUniverse \cup {4}, missing \in {"error", "negative"} : Number(k, missing)
    \/ \E i \in (-1)..MaxKeys : Term(i)

SpecVocab == VocabInit /\ [][VocabNext]_vars

---------------------------------------------------------------------------
\* A trained model: cold-start projections and scoring.

\* self.reg: a scalar, or separate user and item terms
Regs == {[scalar |-> 0], [scalar |-> 1], [ureg |-> 1, ireg |-> 0]}

\* trained factors: the unit vectors, or every row the vector of ones
FactorsUnit(n, k) == [c \in 0..(n - 1) |-> [f \in 1..k |-> RInt(IF c + 1 = f THEN 1 ELSE 0)]]

FactorsOnes(n, k) == [c \in 0..(n - 1) |-> [f \in 1..k |-> RInt(1)]]

TrainedFactors(n, k) == {FactorsUnit(n, k), FactorsOnes(n, k)}

UserIds == <<10, 12>>

ItemIndexes == {<<1, 2>>, <<1, 2, 3>>}

\* rating histories: the rating of item i is i + 2; items 4 and 7 are in no index
History(ids) == [index |-> ids, values |-> [k \in 1..Len(ids) |-> ids[k] + 2]]

Histories == {History(<<>>), History(<<1>>), History(<<3>>), History(<<4>>), History(<<1, 2>>),
              History(<<4, 1>>), History(<<2, 4, 1>>), History(<<4, 7>>)}

Queries == {10, 50}

ItemLists == {<<>>, <<3>>, <<4>>, <<1, 4, 2>>}

NewUser == -1

EmbedInit ==
    /\ self_features \in FeatureCounts
    /\ epochs = 1
    /\ self_reg \in Regs
    /\ user_index_ = UserIds
    /\ item_index_ \in ItemIndexes
    /\ user_features_ = Some(FactorsUnit(Len(user_index_), self_features))
    /\ \E m \in TrainedFactors(Len(item_index_), self_features) : item_features_ = Some(m)
    /\ data = None
    /\ epoch = 1
    /\ phase = "Trained"
    /\ trainlog = <<>>
    /\ embed = NoEmbed
    /\ scored = NoScores
    /\ TrainingIdle
    /\ ConfigIdle
    /\ VocabIdle

\* a call of new_user_embedding(user, ratings) on the trained model
Projected(ratings, r) ==
    /\ item_index_' = r.item_index_
    /\ item_features_' = Some(r.item_features_)
    /\ user_features_' = r.user_features_
    /\ self_reg' = r.reg
    /\ embed' = [called |-> TRUE, ratings |-> ratings, ri_it |-> r.ri_it, ri_val |-> r.ri_val,
                 raised |-> r.raised, value |-> r.value]
    /\ UNCHANGED <<alsVars, cfgVars, vocVars, self_features, epochs, user_index_, data, epoch,
                   phase, trainlog, scored>>

NewUserEmbedding(ratings) ==
    /\ phase = "Trained"
    /\ Projected(ratings,
                 new_user_embedding(item_index_, item_features_[1], user_features_, self_reg,
                                    self_features, NewUser, ratings))

\* a scoring call for a user id and a list of items
Score(query, items) ==
    /\ phase = "Trained"
    /\ scored' = [called |-> TRUE, query |-> query, items |-> items, raised |-> "",
                  scores |-> score(user_index_, user_features_[1], item_index_,
                                   item_features_[1], self_features, query, items)]
    /\ UNCHANGED <<alsVars, cfgVars, vocVars, self_features, epochs, self_reg, user_index_,
                   item_index_, user_features_, item_features_, data, epoch, phase, trainlog,
                   embed>>

EmbedNext ==
    \/ \E h \in Histories : NewUserEmbedding(h)
    \/ \E q \in Queries, l \in ItemLists : Score(q, l)

SpecEmbed == EmbedInit /\ [][EmbedNext]_vars

---------------------------------------------------------------------------
\* Training: Initialized -> (UserHalfEpoch -> ItemHalfEpoch) `epochs` times ->
\* Trained, each half-epoch a call of als_half_epoch (explicit.py:100-105) on
\* the TrainContext of its axis.  An interaction is [user, item, rating].

Interaction(u, i, v) == [user |-> u, item |-> i, rating |-> v]

RatingAt(ds, u, i) == ds[CHOOSE k \in 1..Len(ds) : ds[k].user = u /\ ds[k].item = i].rating

Rated(ds, u, i) == \E k \in 1..Len(ds) : ds[k].user = u /\ ds[k].item = i

\* the sparse row of user u: the positions of the items rated, ascending
UserRow(ds, items, u) ==
    LET cols == SelectSeq([c \in 1..Len(items) |-> c - 1], LAMBDA c : Rated(ds, u, items[c + 1]))
    IN  [indices |-> cols,
         values |-> [j \in 1..Len(cols) |-> RatingAt(ds, u, items[cols[j] + 1])]]

\* the sparse row of item i in the transpose
ItemRow(ds, users, i) ==
    LET cols == SelectSeq([c \in 1..Len(users) |-> c - 1], LAMBDA c : Rated(ds, users[c + 1], i))
    IN  [indices |-> cols,
         values |-> [j \in 1..Len(cols) |-> RatingAt(ds, users[cols[j] + 1], i)]]

\* TrainingData: the two vocabularies, the matrix by user rows and its transpose
TrainingDataOf(ds, users, items) ==
    [users |-> users, items |-> items,
     matrix |-> [r \in 0..(vocab_size(users) - 1) |-> UserRow(ds, items.index, users.index[r + 1])],
     matrix_T |-> [r \in 0..(vocab_size(items) - 1) |->
                     ItemRow(ds, users.index, items.index[r + 1])]]

TrainingDataCreate(ds) ==
    TrainingDataOf(ds, Vocabulary([k \in 1..Len(ds) |-> ds[k].user]),
                   Vocabulary([k \in 1..Len(ds) |-> ds[k].item]))

\* the item regularization of self.reg
ItemReg(r) == IF "ireg" \in DOMAIN r THEN r.ireg ELSE r.scalar

\* the initial factor matrices
ItemInit(n, k) == [i \in 0..(n - 1) |-> [f \in 1..k |-> RInt(1 + ((i + f) % 2))]]

\* a variant of NextHalf that runs one epoch more
NextHalfOneMore(ph, ep, total) ==
    IF ph = "UserHalfEpoch" THEN [phase |-> "ItemHalfEpoch", epoch |-> ep]
    ELSE IF ep <= total THEN [phase |-> "UserHalfEpoch", epoch |-> ep + 1]
    ELSE [phase |-> "Trained", epoch |-> ep]

\* what follows a half-epoch that has ended
NextHalf(ph, ep, total) ==
    IF ph = "UserHalfEpoch" THEN [phase |-> "ItemHalfEpoch", epoch |-> ep]
    ELSE IF ep < total THEN [phase |-> "UserHalfEpoch", epoch |-> ep + 1]
    ELSE [phase |-> "Trained", epoch |-> ep]

\* the datasets: one interaction; two users of one item; the four interactions
\* of users 10, 12, 13 with items 1, 2, 3; 51 users of one item
SimpleDataset == <<Interaction(10, 1, 4), Interaction(12, 1, 3), Interaction(10, 2, 5),
                   Interaction(13, 3, 2)>>

LargeDataset == [k \in 1..(SeqThreshold + 1) |-> Interaction(100 + k, 1, 2)]

OneDataset == <<Interaction(10, 1, 4)>>

TwoDataset == <<Interaction(12, 1, 3), Interaction(10, 1, 4)>>

Datasets == {OneDataset, TwoDataset, SimpleDataset, LargeDataset}

EpochCounts == {1, 2}

\* the models trained: the hyper-parameters and the dataset
\* (the factors are exact fractions: the models listed are those whose
\* numerators and denominators stay within 32 bits over all their epochs)
TrainConfigs ==
    [features : {1}, epochs : EpochCounts, reg : {[scalar |-> 0], [ureg |-> 1, ireg |-> 0]},
     ds : {OneDataset, TwoDataset, LargeDataset}]
    \cup [features : {1}, epochs : {1}, reg : Regs, ds : {OneDataset, TwoDataset, LargeDataset}]
    \cup [features : {1}, epochs : {2}, reg : {[scalar |-> 1]}, ds : {TwoDataset}]
    \cup [features : {1}, epochs : {1}, reg : {[scalar |-> 0]}, ds : {SimpleDataset}]
    \cup [features : {2}, epochs : {1}, reg : {[scalar |-> 1]},
          ds : {OneDataset, TwoDataset, LargeDataset}]
    \cup [features : {2}, epochs : EpochCounts, reg : {[scalar |-> 0]}, ds : Datasets]
    \cup [features : {2}, epochs : EpochCounts, reg : {[ureg |-> 1, ireg |-> 0]},
          ds : {OneDataset, TwoDataset, LargeDataset}]

TrainInit ==
    /\ \E cfg \in TrainConfigs :
          /\ self_features = cfg.features
          /\ epochs = cfg.epochs
          /\ self_reg = cfg.reg
          /\ data = Some(TrainingDataCreate(cfg.ds))
    /\ user_index_ = <<>>
    /\ item_index_ = <<>>
    /\ user_features_ = None
    /\ item_features_ = None
    /\ epoch = 0
    /\ phase = "Initialized"
    /\ trainlog = <<>>
    /\ embed = NoEmbed
    /\ scored = NoScores
    /\ TrainingIdle
    /\ ConfigIdle
    /\ VocabIdle

\* als_half_epoch (explicit.py:100-105) is called on a context: the chunking is
\* created and _train_update_fanout is entered
CallHalfEpoch(l, r, m, n, c, lambda) ==
    /\ left' = l
    /\ right' = r
    /\ matrix' = m
    /\ nrows' = n
    /\ ncols' = c
    /\ nf' = self_features
    /\ regI' = RegIOf(self_features, lambda)
    /\ chunk_size' \in ChunkSizes
    /\ pc' = "call"
    /\ left0' = l
    /\ cursor' = 0
    /\ results' = <<>>
    /\ fut' = <<>>
    /\ joined' = 0
    /\ sqerr' = RInt(0)
    /\ ret' = None
    /\ solves' = ZeroRows(n)
    /\ writes' = ZeroRows(n)
    /\ raised' = {}

\* the half-epoch that has ended, for the log
Ended == [label |-> IF phase = "UserHalfEpoch" THEN "user" ELSE "item", epoch |-> epoch,
          nrows |-> nrows, right |-> right, left |-> left, delta |-> ret,
          solved |-> {i \in 0..(nrows - 1) : solves[i] > 0}]

\* training starts: the factor matrices are initialized and the user
\* half-epoch of the first epoch is called
BeginTraining ==
    /\ phase = "Initialized"
    /\ phase' = "UserHalfEpoch"
    /\ epoch' = 1
    /\ CallHalfEpoch(LeftInit(vocab_size(data[1].users), self_features),
                     ItemInit(vocab_size(data[1].items), self_features),
                     data[1].matrix, vocab_size(data[1].users), vocab_size(data[1].items),
                     UserReg(self_reg))
    /\ UNCHANGED <<cfgVars, vocVars, self_features, epochs, self_reg, user_index_, item_index_,
                   user_features_, item_features_, data, trainlog, embed, scored>>

\* a half-epoch has returned and the next one is called on the other axis
EndHalfEpoch ==
    /\ phase \in {"UserHalfEpoch", "ItemHalfEpoch"}
    /\ pc = "done"
    /\ NextHalf(phase, epoch, epochs).phase # "Trained"
    /\ trainlog' = Append(trainlog, Ended)
    /\ phase' = NextHalf(phase, epoch, epochs).phase
    /\ epoch' = NextHalf(phase, epoch, epochs).epoch
    /\ CallHalfEpoch(right, left,
                     IF phase = "UserHalfEpoch" THEN data[1].matrix_T ELSE data[1].matrix,
                     ncols, nrows,
                     IF phase = "UserHalfEpoch" THEN ItemReg(self_reg) ELSE UserReg(self_reg))
    /\ UNCHANGED <<cfgVars, vocVars, self_features, epochs, self_reg, user_index_, item_index_,
                   user_features_, item_features_, data, embed, scored>>

\* the item half-epoch of the last epoch has returned: the model is trained
EndTraining ==
    /\ phase \in {"UserHalfEpoch", "ItemHalfEpoch"}
    /\ pc = "done"
    /\ NextHalf(phase, epoch, epochs).phase = "Trained"
    /\ trainlog' = Append(trainlog, Ended)
    /\ phase' = "Trained"
    /\ user_index_' = data[1].users.index
    /\ item_index_' = data[1].items.index
    /\ user_features_' = Some(right)
    /\ item_features_' = Some(left)
    /\ UNCHANGED <<alsVars, cfgVars, vocVars, self_features, epochs, self_reg, data, epoch,
                   embed, scored>>

\* a half-epoch has raised: training is aborted
AbortTraining ==
    /\ phase \in {"UserHalfEpoch", "ItemHalfEpoch"}
    /\ pc = "failed"
    /\ phase' = "Failed"
    /\ UNCHANGED <<alsVars, cfgVars, vocVars, self_features, epochs, self_reg, user_index_,
                   item_index_, user_features_, item_features_, data, epoch, trainlog, embed,
                   scored>>

TrainNext ==
    \/ BeginTraining
    \/ Sequential
    \/ Fanout
    \/ Fork
    \/ ForkEnd
    \/ \E t \in 1..Len(fut) : TaskStart(t)
    \/ \E t \in 1..Len(fut) : TaskFinish(t)
    \/ WaitCommit
    \/ WaitRaise
    \/ Return
    \/ EndHalfEpoch
    \/ EndTraining
    \/ AbortTraining

SpecTrain == TrainInit /\ [][TrainNext]_vars

---------------------------------------------------------------------------
\* Properties of the half-epoch (specification Spec).

\* whether the half-epoch took the fork/join path
Forked == Len(fut) > 0

\* the distinct rows of ctx.matrix whose regularized system A has no Cholesky factor
NotPositiveDefinite ==
    {row \in {matrix[i] : i \in 0..(nrows - 1)} :
        cholesky_ex_info(SystemA(row.indices, right, regI, nf), nf) # 0}

\* the rows the solver was invoked for and whose factorization fails
FailedRows ==
    LET bad == NotPositiveDefinite
    IN  {i \in 0..(nrows - 1) : solves[i] > 0 /\ matrix[i] \in bad}

\* the sum over all rows and features of the squared difference of two matrices
FrobeniusSq(l0, l1) ==
    SumRat([i \in 1..nrows |->
              SumRat([f \in 1..nf |->
                        RMul(RSub(l0[i - 1][f], l1[i - 1][f]), RSub(l0[i - 1][f], l1[i - 1][f]))],
                     nf)],
           nrows)

\* C1: if the row solve fails for any row, the call fails and the left factor
\* matrix is exactly as it was before the call (no chunk's rows are committed).
C1_FailedCallLeavesLeft == pc = "failed" => left = left0

\* C2: in the fork/join path no row of ctx.left is assigned while a dispatched
\* chunk task has not completed.
C2_CommitAfterAllTasks ==
    [][(Forked /\ writes' # writes) => \A t \in 1..Len(fut) : Completed(t)]_vars

\* C4: the left matrix after a successful fork/join half-epoch and the value
\* returned are fixed by the context (left, right, matrix, regI): row i is the
\* solve of row i against right (the row as it was when no solve is made), and
\* the value is the norm of the change, whatever the order in which the tasks
\* started and completed.
C4_ExpectedLeft ==
    [i \in 0..(nrows - 1) |->
        IF ncols = 0 THEN left0[i]
        ELSE _train_solve_row(matrix[i].indices, matrix[i].values, nf, right, regI).V]

C4_OrderIndependent ==
    (pc = "done" /\ Forked) =>
        /\ left = C4_ExpectedLeft
        /\ ret = Some([sqrt |-> FrobeniusSq(left0, C4_ExpectedLeft)])

C4_Witness ==
    /\ pc = "done"
    /\ Len(fut) >= 2
    /\ left # left0

\* C6: a row without observed entries keeps its feature vector in a successful
\* half-epoch, and the row solver is not invoked for it.
C6_EmptyRowsSkipped ==
    \A i \in 0..(nrows - 1) :
        Len(matrix[i].indices) = 0 =>
            /\ solves[i] = 0
            /\ pc = "done" => left[i] = left0[i]

\* C7: the value returned by a successful half-epoch is the square root of the
\* sum over all rows and features of the squared difference between left before
\* and after, and the fork/join path gives the new left and the sum of squares
\* that the sequential computation (_train_update_rows over all rows, compared
\* and assigned at once) gives for the same context.
C7_SequentialLeft ==
    AssignRows(left0,
               _train_update_rows(left0, matrix, ncols, nf, right, regI, 0, nrows).result,
               0, nrows)

C7_ChangeMagnitude ==
    pc = "done" =>
        /\ ret = Some([sqrt |-> FrobeniusSq(left0, left)])
        /\ _train_update_rows(left0, matrix, ncols, nf, right, regI, 0, nrows).ok
        /\ left = C7_SequentialLeft
        /\ ret[1].sqrt = FrobeniusSq(left0, C7_SequentialLeft)

C7_Witness ==
    /\ pc = "done"
    /\ Len(fut) >= 3
    /\ ret # None
    /\ ret[1].sqrt[1] > 0

\* C8: when the Cholesky factorization of a row's system fails, the solve
\* raises, the chunk task raises and the call raises: it never returns a value,
\* no row is solved twice, the row is never assigned, and as long as the call
\* has not raised it is still forking or waiting for a task.
C8_TaskOf(i) == {t \in 1..Len(fut) : results[t].start <= i /\ i < results[t].end}

C8_FailurePropagates ==
    LET failed == FailedRows
    IN  /\ failed \subseteq raised
        /\ \A i \in failed :
              /\ writes[i] = 0
              /\ left[i] = left0[i]
              /\ \A t \in C8_TaskOf(i) : fut[t].status = "failed"
        /\ \A i \in 0..(nrows - 1) : solves[i] <= 1
        /\ \A t \in 1..Len(fut) : t <= joined => fut[t].status = "done"
        /\ failed # {} => (pc # "done" /\ ret = None)
        /\ (failed # {} /\ pc # "failed") =>
              (pc = "fork" \/ (pc = "join" /\ joined < Len(results)))

C8_Witness ==
    /\ pc = "failed"
    /\ joined >= 1
    /\ FailedRows # {}
    /\ \E t \in 1..Len(fut) : fut[t].status = "failed"

\* C9 as stated: the half-epoch runs sequentially, forking no task, exactly when
\* the row count is below 50.
C9_SequentialBelow50 ==
    pc \in {"join", "done", "failed"} => (~Forked <=> nrows < 50)

\* C9 as amended: the half-epoch runs sequentially, forking no task, exactly
\* when the row count is at most 50; for every row count of 51 or more it
\* forks one task per chunk.
C9_Chunks(n, size) == (n + size - 1) \div size

C9_SequentialUpTo50 ==
    pc \in {"join", "done", "failed"} =>
        /\ ~Forked <=> nrows <= 50
        /\ nrows >= 51 => Len(fut) = C9_Chunks(nrows, chunk_size)
        /\ nrows >= 51 => Len(results) = Len(fut)
        /\ nrows >= 51 => \A i \in 0..(nrows - 1) : solves[i] > 0 =>
                              \E t \in 1..Len(fut) : /\ fut[t].status \in {"done", "failed"}
                                                     /\ results[t].start <= i
                                                     /\ i < results[t].end

C9_Witness ==
    /\ pc = "done"
    /\ nrows = 50
    /\ ~Forked
    /\ \A i \in 0..(nrows - 1) : solves[i] = 1

\* C18: the call does not end, neither by returning nor by raising, while a
\* chunk task it forked is still running: every forked task has completed when
\* the half-epoch call ends.
C18_AllTasksJoined ==
    pc \in {"done", "failed"} => \A t \in 1..Len(fut) : Completed(t)

\* C19: every write to the shared training state is a commit-step write to the
\* rows [start, end) of left of one chunk: no step assigns right, matrix or
\* regI, a step of a task changes the block of that task only and leaves left
\* alone, a row of left is assigned at most once in a half-epoch and exactly
\* once when the half-epoch succeeds.
C19_Range == IF pc = "join" THEN results[joined + 1] ELSE [start |-> 0, end |-> nrows]

C19_CommitStepWrites ==
    [][/\ right' = right
       /\ matrix' = matrix
       /\ regI' = regI
       /\ left' # left => writes' # writes
       /\ writes' # writes =>
              /\ pc \in {"call", "join"}
              /\ fut' = fut
              /\ writes' = CountRows(writes, C19_Range.start, C19_Range.end)
              /\ \A i \in 0..(nrows - 1) :
                    (i < C19_Range.start \/ i >= C19_Range.end) => left'[i] = left[i]
       /\ (fut' # fut /\ Len(fut') = Len(fut)) =>
              /\ left' = left
              /\ Cardinality({t \in 1..Len(fut) : fut'[t] # fut[t]}) = 1
       /\ \A i \in 0..(nrows - 1) : writes'[i] <= 1
       /\ pc' = "done" => \A i \in 0..(nrows - 1) : writes'[i] = 1
      ]_vars

C19_Witness ==
    /\ pc = "done"
    /\ Len(fut) >= 3
    /\ left # left0
    /\ \A i \in 0..(nrows - 1) : writes[i] = 1

---------------------------------------------------------------------------
\* Properties of the fork loop (specification SpecPartition).

\* C3: the ranges the fork loop produces are non-empty, pairwise disjoint,
\* contiguous, in ascending start order, and their union is exactly [0, N);
\* N = 0 produces no range.
C3_Covered(i) == {k \in 1..Len(results) : results[k].start <= i /\ i < results[k].end}

C3_PartitionCoverage ==
    /\ \A k \in 1..Len(results) :
          /\ results[k].start < results[k].end
          /\ results[k].start >= 0
          /\ results[k].end <= nrows
    /\ \A k \in 1..(Len(results) - 1) :
          /\ results[k].end = results[k + 1].start
          /\ results[k].start < results[k + 1].start
    /\ \A j, k \in 1..Len(results) :
          j # k => \A i \in 0..(nrows - 1) :
                      ~(results[j].start <= i /\ i < results[j].end
                        /\ results[k].start <= i /\ i < results[k].end)
    /\ pc = "join" =>
          /\ \A i \in 0..(nrows - 1) : Cardinality(C3_Covered(i)) = 1
          /\ nrows = 0 <=> results = <<>>
          /\ results # <<>> => (results[1].start = 0 /\ results[Len(results)].end = nrows)

C3_Witness ==
    /\ pc = "join"
    /\ Len(results) >= 3
    /\ results[Len(results)].end - results[Len(results)].start < chunk_size

---------------------------------------------------------------------------
\* Properties of the configuration (specifications SpecConfig, SpecResolve).

\* C5: the configuration is set by the first call that finds it unset, and never
\* changes afterwards: a later initialize with any arguments leaves it as it is,
\* logs a warning and raises nothing; ensure_parallel_init on a set
\* configuration does nothing; get_parallel_config returns it.
C5_FirstCallWins ==
    [][/\ _config # None => _config' = _config
       /\ (_config # None /\ call'.op = "initialize") =>
              (call'.warned /\ call'.raised = "")
       /\ (_config # None /\ call'.op = "ensure_parallel_init") =>
              (~call'.warned /\ call'.raised = "")
       /\ (_config # None /\ call'.op = "get_parallel_config") =>
              (~call'.warned /\ call'.raised = "" /\ call'.value = _config)
       /\ (_config = None /\ call'.raised = "") => _config' # None
      ]_vars

C5_Witness ==
    /\ _config # None
    /\ call.op = "initialize"
    /\ call.warned
    /\ call.args[1] = Some(3)
    /\ _config[1].processes # 3

\* what _resolve_parallel_config raises: int() of an environment value that is
\* not an integer, ncpus // 0
C21_ResolveErrors == {"ValueError", "ZeroDivisionError"}

C21_Failed(c) == c.op = "initialize" /\ c.raised \in C21_ResolveErrors

\* C21: a call in which resolving the configuration raises leaves the
\* process-wide configuration unset; and the initialize call that follows a
\* failed initialize call, when its own resolution succeeds, is the call that
\* sets the configuration, to what it resolved and without the warning of a
\* call that came second.
C21_FailedCallLeavesUnset ==
    [][/\ call'.raised \in C21_ResolveErrors => (_config = None /\ _config' = None)
       /\ (C21_Failed(call) /\ call'.op = "initialize" /\ ~C21_Failed(call')) =>
              /\ _config = None
              /\ _resolve_parallel_config(call'.args[1], call'.args[2], call'.args[3],
                                          environ, ncpus).ok
              /\ _config' = Some(_resolve_parallel_config(call'.args[1], call'.args[2],
                                                          call'.args[3], environ, ncpus).value)
              /\ ~call'.warned
      ]_vars

\* an initialize call has set the configuration after an initialize call that
\* raised on the value "x" of LK_NUM_PROCS
C21_Witness ==
    /\ call.op = "initialize"
    /\ call.prior = [op |-> "initialize", raised |-> "ValueError"]
    /\ environ["LK_NUM_PROCS"] = Some(<<"x">>)
    /\ call.raised = ""
    /\ ~call.warned
    /\ _config = Some([processes |-> 3, threads |-> 2, child_threads |-> 0])

\* C10: each of processes, threads and child_threads is the explicit argument
\* when one is given; otherwise the integer value of its environment variable
\* when that is set and not empty; otherwise min(ncpus, 4), min(ncpus, 8) and
\* min(ncpus div processes, 4), with processes the resolved process count.
C10_TextValue(v) ==
    CASE v = <<"0">> -> 0
      [] v = <<"1", "2">> -> 12
      [] v = <<" ", "2">> -> 2

C10_Given(name) == environ[name] # None /\ environ[name] # Some(<<>>)

C10_Expected(arg, name, default) ==
    IF arg # None THEN arg[1]
    ELSE IF C10_Given(name) THEN C10_TextValue(environ[name][1])
    ELSE default

C10_ResolveOrder ==
    (call.op = "_resolve_parallel_config" /\ call.raised = "") =>
        /\ call.value # None
        /\ call.value[1].processes =
              C10_Expected(call.args[1], "LK_NUM_PROCS", Min(ncpus, 4))
        /\ call.value[1].threads =
              C10_Expected(call.args[2], "LK_NUM_THREADS", Min(ncpus, 8))
        /\ (call.args[3] # None \/ C10_Given("LK_NUM_CHILD_THREADS")) =>
              call.value[1].child_threads =
                  C10_Expected(call.args[3], "LK_NUM_CHILD_THREADS", 0)
        /\ (call.args[3] = None /\ ~C10_Given("LK_NUM_CHILD_THREADS")) =>
              /\ call.value[1].processes > 0
              /\ call.value[1].child_threads =
                    Min(ncpus \div call.value[1].processes, 4)

C10_Witness ==
    /\ call.op = "_resolve_parallel_config"
    /\ call.args = <<None, Some(3), None>>
    /\ environ["LK_NUM_PROCS"] = Some(<<"1", "2">>)
    /\ environ["LK_NUM_THREADS"] = Some(<<"x">>)
    /\ environ["LK_NUM_CHILD_THREADS"] = Some(<<>>)
    /\ ncpus = 16
    /\ call.value = Some([processes |-> 12, threads |-> 3, child_threads |-> 1])

\* C11: when child_threads comes neither from the argument nor from
\* LK_NUM_CHILD_THREADS and the resolved process count is at least 1, the
\* child-thread count is min(ncpus div processes, 4): at most 4, and 0 when
\* there are more processes than CPUs.
C11_ChildThreadsDefault ==
    (/\ call.op = "_resolve_parallel_config"
     /\ call.raised = ""
     /\ call.args[3] = None
     /\ ~C10_Given("LK_NUM_CHILD_THREADS")
     /\ call.value[1].processes >= 1) =>
        /\ call.value[1].child_threads = Min(ncpus \div call.value[1].processes, 4)
        /\ call.value[1].child_threads <= 4
        /\ call.value[1].child_threads >= 0
        /\ call.value[1].processes > ncpus => call.value[1].child_threads = 0

C11_Witness ==
    /\ call.op = "_resolve_parallel_config"
    /\ call.raised = ""
    /\ call.args[3] = None
    /\ ~C10_Given("LK_NUM_CHILD_THREADS")
    /\ call.value[1].processes = 3
    /\ ncpus = 2
    /\ call.value[1].child_threads = 0

---------------------------------------------------------------------------
\* Properties of the trained model (specification SpecEmbed).

\* C12: new_user_embedding is a read-only projection: item_features_,
\* user_features_, the item index and the regularization of the model are the
\* same after every call as before it, whether the call returns or raises, also
\* when calls are interleaved with scoring; a call with the ratings of the call
\* before it ends as that call did.
C12_ReadOnlyProjection ==
    [][/\ item_features_' = item_features_
       /\ user_features_' = user_features_
       /\ item_index_' = item_index_
       /\ self_reg' = self_reg
       /\ (embed.called /\ embed'.ratings = embed.ratings) =>
              (embed'.raised = embed.raised /\ embed'.value = embed.value)
      ]_vars

C12_Witness ==
    /\ embed.called
    /\ embed.raised = ""
    /\ Len(embed.ri_it) = 2
    /\ scored.called

\* C13: unknown items in the rating history make new_user_embedding raise no
\* error: only the ratings of known items reach the solve, and with a positive
\* regularization the call completes for every history, also one in which no
\* item is known.
C13_Known(ratings) == {k \in 1..Len(ratings.index) : PositionIn(item_index_, ratings.index[k]) >= 0}

C13_UnknownItemsDropped ==
    embed.called =>
        /\ Len(embed.ri_it) = Cardinality(C13_Known(embed.ratings))
        /\ \A k \in 1..Len(embed.ri_it) :
              \E j \in C13_Known(embed.ratings) :
                 /\ item_index_[embed.ri_it[k] + 1] = embed.ratings.index[j]
                 /\ embed.ri_val[k] = embed.ratings.values[j]
        /\ UserReg(self_reg) > 0 => embed.raised = ""

\* C20: for the same observed columns, values, opposite-axis factors and
\* regularization scalar (regI = scalar * I), _train_bias_row_cholesky and
\* _train_solve_row build the same A and b, fail under the same condition and
\* return the same vector.
C20_Training ==
    _train_solve_row(embed.ri_it, embed.ri_val, self_features, item_features_[1],
                     RegIOf(self_features, UserReg(self_reg)))

C20_SameSolver ==
    embed.called =>
        /\ BiasRowA(embed.ri_it, item_features_[1], self_features, UserReg(self_reg))
              = SystemA(embed.ri_it, item_features_[1],
                        RegIOf(self_features, UserReg(self_reg)), self_features)
        /\ BiasRowV(embed.ri_it, embed.ri_val, item_features_[1], self_features)
              = SystemV(embed.ri_it, embed.ri_val, item_features_[1], self_features)
        /\ C20_Training.ok <=> embed.raised = ""
        /\ C20_Training.ok => embed.value = Some([u_feat |-> C20_Training.V, u_offset |-> None])

C20_Witness ==
    /\ embed.called
    /\ embed.raised = ""
    /\ Len(embed.ri_it) = 2
    /\ UserReg(self_reg) = 1
    /\ self_features = 2
    /\ embed.value[1].u_feat # <<RInt(0), RInt(0)>>

\* C14: scoring raises nothing for unknown entities: a user id that is not in
\* the user vocabulary gets the missing-value sentinel for every requested
\* item, a known user gets it for exactly the requested items that are not in
\* the item vocabulary, and the result has one score per requested item, in
\* the requested order.
C14_KnownUser == \E j \in 1..Len(user_index_) : user_index_[j] = scored.query

C14_KnownItem(i) == \E j \in 1..Len(item_index_) : item_index_[j] = i

C14_MissingScores ==
    scored.called =>
        /\ scored.raised = ""
        /\ Len(scored.scores) = Len(scored.items)
        /\ \A k \in 1..Len(scored.items) :
              /\ scored.scores[k].item = scored.items[k]
              /\ ~C14_KnownUser => scored.scores[k].score = NaN
              /\ C14_KnownUser =>
                    (scored.scores[k].score = NaN <=> ~C14_KnownItem(scored.items[k]))

C14_Witness ==
    /\ scored.called
    /\ scored.query = 10
    /\ scored.items = <<1, 4, 2>>
    /\ scored.scores[1].score # NaN
    /\ scored.scores[2].score = NaN
    /\ scored.scores[3].score # NaN

---------------------------------------------------------------------------
\* Properties of the Vocabulary (specification SpecVocab).

\* C17: for a Vocabulary built from any collection of keys, duplicates allowed,
\* size is the number of distinct keys, number(k) is the rank of k among the
\* distinct keys in sorted order, term(number(k)) = k for every key and
\* number(term(i)) = i for every position i in 0..size-1.
C17_Keys == {keys[j] : j \in 1..Len(keys)}

C17_Rank(k) == Cardinality({j \in C17_Keys : j < k})

C17_Bijection ==
    vocab # None =>
        /\ vocab_size(vocab[1]) = Cardinality(C17_Keys)
        /\ \A k \in C17_Keys :
              /\ number(vocab[1], k, "error") = [raised |-> "", value |-> Some(C17_Rank(k))]
              /\ term(vocab[1], C17_Rank(k)) = [raised |-> "", value |-> Some(k)]
        /\ \A i \in 0..(vocab_size(vocab[1]) - 1) :
              /\ term(vocab[1], i).raised = ""
              /\ number(vocab[1], term(vocab[1], i).value[1], "error")
                    = [raised |-> "", value |-> Some(i)]
        /\ (lookup.op = "number" /\ lookup.arg[1] \in C17_Keys) =>
              lookup.value = Some(C17_Rank(lookup.arg[1]))
        /\ (lookup.op = "term" /\ lookup.raised = "") =>
              /\ lookup.value[1] \in C17_Keys
              /\ C17_Rank(lookup.value[1]) = lookup.arg[1]

C17_Witness ==
    /\ vocab # None
    /\ keys = <<5, 2, 5>>
    /\ lookup.op = "number"
    /\ lookup.arg[1] = 5
    /\ lookup.value = Some(1)

---------------------------------------------------------------------------
\* Properties of training.

C15_Training == phase \in {"UserHalfEpoch", "ItemHalfEpoch"}

C15_LastLeft == trainlog[Len(trainlog)].left

\* C15: training runs exactly `epochs` epochs.  The half-epochs that have ended
\* alternate user, item, user, item, ...; the k-th one belongs to epoch
\* (k + 1) \div 2 and has solved every row of its axis; each one after the
\* first solves against the factors the one before it has just written, and
\* these stay fixed while it runs; when a half-epoch has returned none of its
\* tasks is still running, so the next one starts after it; the model is
\* Trained only after the item half-epoch of epoch `epochs`.
C15_AlternatingEpochs ==
    /\ epoch <= epochs
    /\ Len(trainlog) <= 2 * epochs
    /\ \A k \in 1..Len(trainlog) :
          /\ trainlog[k].label = (IF k % 2 = 1 THEN "user" ELSE "item")
          /\ trainlog[k].epoch = (k + 1) \div 2
          /\ trainlog[k].nrows = (IF k % 2 = 1 THEN vocab_size(data[1].users)
                                  ELSE vocab_size(data[1].items))
          /\ trainlog[k].solved = 0..(trainlog[k].nrows - 1)
          /\ k >= 2 => trainlog[k].right = trainlog[k - 1].left
    /\ phase = "Initialized" => trainlog = <<>>
    /\ C15_Training =>
          /\ Len(trainlog) = 2 * (epoch - 1) + (IF phase = "UserHalfEpoch" THEN 0 ELSE 1)
          /\ right = (IF trainlog = <<>>
                      THEN ItemInit(vocab_size(data[1].items), self_features)
                      ELSE C15_LastLeft)
          /\ pc = "done" => \A t \in 1..Len(fut) : fut[t].status = "done"
    /\ phase = "Trained" =>
          /\ Len(trainlog) = 2 * epochs
          /\ epoch = epochs
          /\ trainlog[Len(trainlog)].label = "item"
          /\ item_features_ = Some(C15_LastLeft)
          /\ user_features_ = Some(trainlog[Len(trainlog)].right)

C15_Witness ==
    /\ phase = "Trained"
    /\ epochs = 2
    /\ Len(trainlog) = 4
    /\ trainlog[3].right # trainlog[1].right

C16_Shaped(m, n, k) ==
    /\ DOMAIN m = 0..(n - 1)
    /\ \A i \in DOMAIN m : DOMAIN m[i] = 1..k

===========================================================================
